---- MODULE Spec2Model ----
(***************************************************************************)
(* A model of pyswarms/utils/plotters/plotters.py: plot_cost_history,      *)
(* plot_contour, plot_surface, _animate and _mesh.  One call of one of     *)
(* these functions is a behaviour: Init draws the arguments the body reads  *)
(* first (mesher, n_processes, best_pos and mark are drawn by the step     *)
(* that first reads them), the actions are the steps of the function body, *)
(* its except/else clauses, the worker processes of the pool created by    *)
(* _mesh and the frames of the animation the call returned.                *)
(***************************************************************************)
EXTENDS Integers, Sequences, FiniteSets, TLC

\* ------------------------------------------------------------------ bounds
MaxIters == 2      \* longest cost_history / pos_history
MaxDim == 3        \* most problem dimensions of a swarm
MaxProcs == 3      \* largest n_processes
MaxGrid == 2       \* most grid points along one axis of the mesh
MaxPlays == 4      \* frames of the animation that are drawn

\* ------------------------------------------------------ Python semantics
\* s[i] on a list, tuple or array axis of length n is defined for -n <= i < n
PyIndexOK(i, n) == i >= -n /\ i < n

PyIndex(s, i) == s[(IF i < 0 THEN i + Len(s) ELSE i) + 1]

\* the ints CPython keeps as singletons: equal ints in this range are one object
SmallInts == -5..256

\* a is b, for ints a and b; same: the caller passed one object for both
IntIs(a, b, same) == a = b /\ (a \in SmallInts \/ same)

Min(a, b) == IF a < b THEN a ELSE b

RECURSIVE Concat(_)
Concat(ss) == IF ss = <<>> THEN <<>> ELSE Head(ss) \o Concat(Tail(ss))

RECURSIVE SumSeq(_)
SumSeq(s) == IF s = <<>> THEN 0 ELSE Head(s) + SumSeq(Tail(s))

\* np.arange(n): 0, 1, ..., n-1
ARange(n) == [k \in 1..n |-> k - 1]

\* np.arange(lo, hi, d) for integers: lo, lo+d, ... below hi
ARange3(lo, hi, d) ==
    [k \in 1..(IF hi > lo THEN (hi - lo + d - 1) \div d ELSE 0) |-> lo + (k - 1) * d]

\* ---------------------------------------------------------------- values
None == [none |-> TRUE]
Some(v) == [none |-> FALSE, val |-> v]

NoExc == "NoExc"
\* what a call into matplotlib can do: return, or raise
LibOutcomes == {NoExc, "TypeError", "ValueError"}

\* formatters.Designer: the attributes the plotters read
Designer(limits, label, legend) ==
    [limits |-> limits, label |-> label, legend |-> legend]

\* Designer(legend="Cost", label=["Iterations", "Cost"]); limits keep their default
CostDesigner == Designer(<< <<-1, 1>>, <<-1, 1>> >>, <<"Iterations", "Cost">>, "Cost")

\* a caller's Designer with n limits and n labels
CustomDesigner(n) ==
    Designer([k \in 1..n |-> <<-k, k>>], [k \in 1..n |-> k], "Custom")

\* the axes and figure objects of a call
NoAx == "None"
UserAx == "user_ax"        \* the 2-D axes a caller passes in
UserAx3D == "user_ax3d"    \* the 3-D axes a caller passes in
NewAx == "new_ax"          \* the axes plt.subplots creates
Ax3D == "axes3d"           \* the axes Axes3D(fig) creates
UserFig == "user_fig"
NewFig == "new_fig"

\* hasattr(ax, 'get_zlim')
HasZlim(ax) == ax \in {UserAx3D, Ax3D}

VARIABLES
    fn,       \* the function that was called
    args,     \* its arguments
    pc,       \* the position in the body
    loc,      \* the local variables of the plot function
    mesh,     \* the local variables of _mesh
    exc,      \* the exception in flight, NoExc when there is none
    log,      \* the entries rep.logger has written
    plt,      \* matplotlib: the axes created and what was drawn on which axes
    mp,       \* multiprocessing: the pools created, their state, the calls of func
    anim,     \* the FuncAnimation and the frames it has drawn
    result    \* how the call ended

vars == <<fn, args, pc, loc, mesh, exc, log, plt, mp, anim, result>>

NoResult == [kind |-> "running"]
Returned(v) == [kind |-> "return", value |-> v]
Raised(e) == [kind |-> "raise", exc |-> e]

LogEntry(level, msg) == [level |-> level, msg |-> msg]
MsgInputType == "Please check your input type"

Loc0 == [designer |-> None, animator |-> None, ax |-> NoAx, fig |-> NoAx,
         n_dim |-> 0, n_iters |-> 0, iters |-> 0, zz |-> None]
Mesh0 == [xx_shape |-> <<0, 0>>, xx |-> <<>>, yy |-> <<>>, xypairs |-> <<>>,
          pool |-> "None", chunks |-> <<>>, results |-> <<>>, z |-> None]
Plt0 == [subplots |-> 0, axes3d |-> 0, drawn |-> <<>>]
Mp0 == [created |-> 0, state |-> "none", processes |-> 0, closed |-> 0,
        evals |-> <<>>, firstFail |-> 0, serialCalls |-> <<>>]
Anim0 == [made |-> FALSE, frames |-> <<>>, data |-> <<>>, repeat |-> FALSE,
          next |-> 1, plot |-> None, shown |-> <<>>]

Args0 == [cost_history |-> None, ax |-> NoAx, designer |-> None,
          pos_history |-> None, canvas |-> None, mark |-> None, mesher |-> None,
          animator |-> None, n_processes |-> None, x |-> 0, y |-> 1,
          xy_same |-> FALSE, best_pos |-> None]

\* ------------------------------------------------------ plot_cost_history
CostValues == {3, 5}

CostHistories ==
    UNION {[1..n -> CostValues] : n \in 0..MaxIters}

CostArgs ==
    {[Args0 EXCEPT !.cost_history = ch, !.ax = a, !.designer = d] :
        ch \in {None} \cup {Some(h) : h \in CostHistories},
        a \in {NoAx, UserAx},
        d \in {None, Some(CustomDesigner(1)), Some(CustomDesigner(2))}}

\* an except clause that logs whatever exception arrives
ExceptLogsAll ==
    /\ pc = "except"
    /\ log' = Append(log, LogEntry("exception", MsgInputType))
    /\ result' = Raised(exc)
    /\ pc' = "done"
    /\ UNCHANGED <<fn, args, loc, mesh, exc, plt, mp, anim>>

\* except TypeError: rep.logger.exception(...); raise.  Any other exception
\* passes the clause and leaves the function
ExceptTypeError ==
    /\ pc = "except"
    /\ log' = IF exc = "TypeError"
              THEN Append(log, LogEntry("exception", MsgInputType))
              ELSE log
    /\ result' = Raised(exc)
    /\ pc' = "done"
    /\ UNCHANGED <<fn, args, loc, mesh, exc, plt, mp, anim>>

\* raise e inside the try body
Raise(e) == pc' = "except" /\ exc' = e

\* iters = len(cost_history)
CostLen ==
    /\ fn = "plot_cost_history" /\ pc = "start"
    /\ IF args.cost_history.none
       THEN Raise("TypeError") /\ UNCHANGED loc
       ELSE /\ loc' = [loc EXCEPT !.iters = Len(args.cost_history.val)]
            /\ pc' = "defaults" /\ UNCHANGED exc
    /\ UNCHANGED <<fn, args, mesh, log, plt, mp, anim, result>>

\* defaults that draw on new axes whatever ax was passed
CostDefaultsNewAxes ==
    /\ fn = "plot_cost_history" /\ pc = "defaults"
    /\ plt' = [plt EXCEPT !.subplots = @ + 1]
    /\ loc' = [loc EXCEPT
           !.designer = Some(IF args.designer.none THEN CostDesigner
                             ELSE args.designer.val),
           !.ax = NewAx]
    /\ pc' = "plot"
    /\ UNCHANGED <<fn, args, mesh, exc, log, mp, anim, result>>

\* designer and ax defaults
CostDefaults ==
    /\ fn = "plot_cost_history" /\ pc = "defaults"
    /\ LET designer == IF args.designer.none THEN CostDesigner ELSE args.designer.val
       IN  IF args.ax = NoAx
           THEN /\ plt' = [plt EXCEPT !.subplots = @ + 1]
                /\ loc' = [loc EXCEPT !.designer = Some(designer), !.ax = NewAx]
           ELSE /\ loc' = [loc EXCEPT !.designer = Some(designer), !.ax = args.ax]
                /\ UNCHANGED plt
    /\ pc' = "plot"
    /\ UNCHANGED <<fn, args, mesh, exc, log, mp, anim, result>>

\* ax.plot(np.arange(iters), cost_history, ...)
CostPlot ==
    /\ fn = "plot_cost_history" /\ pc = "plot"
    /\ \E out \in LibOutcomes :
        IF out = NoExc
        THEN /\ plt' = [plt EXCEPT !.drawn = Append(@,
                    [ax |-> loc.ax, kind |-> "plot", xs |-> ARange(loc.iters),
                     ys |-> args.cost_history.val, label |-> loc.designer.val.legend])]
             /\ pc' = "customize" /\ UNCHANGED exc
        ELSE Raise(out) /\ UNCHANGED plt
    /\ UNCHANGED <<fn, args, loc, mesh, log, mp, anim, result>>

\* set_title, legend, set_xlabel(label[0]), set_ylabel(label[1]), tick_params
CostCustomize ==
    /\ fn = "plot_cost_history" /\ pc = "customize"
    /\ LET label == loc.designer.val.label
       IN  IF PyIndexOK(0, Len(label)) /\ PyIndexOK(1, Len(label))
           THEN /\ plt' = [plt EXCEPT !.drawn = Append(@,
                       [ax |-> loc.ax, kind |-> "labels",
                        xlabel |-> PyIndex(label, 0), ylabel |-> PyIndex(label, 1)])]
                /\ pc' = "else" /\ UNCHANGED exc
           ELSE Raise("IndexError") /\ UNCHANGED plt
    /\ UNCHANGED <<fn, args, loc, mesh, log, mp, anim, result>>

CostExcept == fn = "plot_cost_history" /\ ExceptTypeError

\* else: return ax
CostReturn ==
    /\ fn = "plot_cost_history" /\ pc = "else"
    /\ result' = Returned(loc.ax)
    /\ pc' = "done"
    /\ UNCHANGED <<fn, args, loc, mesh, exc, log, plt, mp, anim>>

\* ------------------------------------------------------------------ _mesh
\* formatters.Mesher: the attributes the plotters read
Mesher(limits, delta, func) == [limits |-> limits, delta |-> delta, func |-> func]

\* an n-dimensional array: its shape and its elements in row-major order
Array(shape, v) == [shape |-> shape, v |-> v]

RECURSIVE Product(_)
Product(s) == IF s = <<>> THEN 1 ELSE Head(s) * Product(Tail(s))

\* the objective functions a caller may put in mesher.func
\*   ellipsoid   one value per row: sum over k of k * row[k]^2
\*   total       one scalar for the whole input (a 0-d array)
\*   gradient    two values per row
\*   raisesValueError, raisesTypeError   raise when given at least one row
FuncKinds == {"ellipsoid", "total", "gradient", "raisesValueError", "raisesTypeError"}

FuncRow(row) == SumSeq([k \in 1..Len(row) |-> k * row[k] * row[k]])

FuncRaises(kind, rows) ==
    IF rows = <<>> THEN NoExc
    ELSE CASE kind = "raisesValueError" -> "ValueError"
           [] kind = "raisesTypeError" -> "TypeError"
           [] OTHER -> NoExc

\* mesher.func(rows) when it does not raise
FuncValue(kind, rows) ==
    CASE kind = "total" ->
            Array(<<>>, <<SumSeq([k \in 1..Len(rows) |-> FuncRow(rows[k])])>>)
      [] kind = "gradient" ->
            Array(<<Len(rows), 2>>,
                  Concat([k \in 1..Len(rows) |-> <<FuncRow(rows[k]), 2 * FuncRow(rows[k])>>]))
      [] OTHER ->
            Array(<<Len(rows)>>, [k \in 1..Len(rows) |-> FuncRow(rows[k])])

\* np.array_split(rows, P): the first N % P chunks have N \div P + 1 rows, the rest N \div P
ChunkStart(N, P, k) == (k - 1) * (N \div P) + Min(k - 1, N % P)

\* array_split that forgets the N % P rows left over
ArraySplitDropRemainder(rows, P) ==
    [k \in 1..P |-> SubSeq(rows, (k - 1) * (Len(rows) \div P) + 1,
                           k * (Len(rows) \div P))]

ArraySplit(rows, P) ==
    [k \in 1..P |-> SubSeq(rows, ChunkStart(Len(rows), P, k) + 1,
                           ChunkStart(Len(rows), P, k + 1))]

\* np.concatenate(arrays) along axis 0: every array has at least one axis and
\* all agree on the other axes
ConcatenateOK(arrays) ==
    /\ \A k \in 1..Len(arrays) : Len(arrays[k].shape) >= 1
    /\ \A j, k \in 1..Len(arrays) : Tail(arrays[j].shape) = Tail(arrays[k].shape)

Concatenate(arrays) ==
    Array(<<SumSeq([k \in 1..Len(arrays) |-> Head(arrays[k].shape)])>>
              \o Tail(arrays[1].shape),
          Concat([k \in 1..Len(arrays) |-> arrays[k].v]))

\* z.reshape(shape) keeps the elements and needs as many as shape holds
ReshapeOK(z, shape) == Product(z.shape) = Product(shape)

Reshape(z, shape) == Array(shape, z.v)

\* np.vstack([xx.reshape(-1), yy.reshape(-1)]).T for xx, yy = np.meshgrid(x, y):
\* row i * len(x) + j is (x[j], y[i])
XYPairs(x, y) ==
    [k \in 1..(Len(x) * Len(y)) |->
        <<x[((k - 1) % Len(x)) + 1], y[((k - 1) \div Len(x)) + 1]>>]

\* a[:, i] = col on the rows a, for an index i the rows have
SetColumn(a, i, col) ==
    [k \in 1..Len(a) |->
        [a[k] EXCEPT ![(IF i < 0 THEN i + Len(a[k]) ELSE i) + 1] = col[k]]]

\* np.tile(best_pos, (n, 1)): n rows, each best_pos; None tiles to one column
TileBestPos(best_pos, n) ==
    [k \in 1..n |-> IF best_pos.none THEN <<0>> ELSE best_pos.val]

TileWidth(best_pos) == IF best_pos.none THEN 1 ELSE Len(best_pos.val)

\* an exception leaves _mesh: to the caller of _mesh, or into the try of the plot function
MeshRaise(e) ==
    IF fn = "_mesh"
    THEN pc' = "done" /\ result' = Raised(e) /\ exc' = e
    ELSE pc' = "except" /\ exc' = e /\ UNCHANGED result

\* the grid: x, y, xx, yy, xypairs and the multi dimension case
MeshGrid ==
    /\ pc = "mesh"
    /\ LET limits == args.mesher.val.limits
           delta == args.mesher.val.delta
       IN  IF ~(PyIndexOK(args.x, Len(limits)) /\ PyIndexOK(args.y, Len(limits)))
           THEN MeshRaise("IndexError") /\ UNCHANGED mesh
           ELSE LET xlim == PyIndex(limits, args.x)
                    ylim == PyIndex(limits, args.y)
                    x == ARange3(xlim[1], xlim[2], delta)
                    y == ARange3(ylim[1], ylim[2], delta)
                    pairs == XYPairs(x, y)
                    col0 == [k \in 1..Len(pairs) |-> pairs[k][1]]
                    col1 == [k \in 1..Len(pairs) |-> pairs[k][2]]
                    w == TileWidth(args.best_pos)
                    grid == [mesh EXCEPT !.xx_shape = <<Len(y), Len(x)>>,
                                         !.xx = x, !.yy = y]
                IN  IF args.x # 0 \/ args.y # 1 \/ ~args.best_pos.none
                    THEN IF PyIndexOK(args.x, w) /\ PyIndexOK(args.y, w)
                         THEN /\ mesh' = [grid EXCEPT !.xypairs =
                                    SetColumn(SetColumn(
                                        TileBestPos(args.best_pos, Len(pairs)),
                                        args.x, col0), args.y, col1)]
                              /\ pc' = "pool" /\ UNCHANGED <<exc, result>>
                         ELSE MeshRaise("IndexError") /\ UNCHANGED mesh
                    ELSE /\ mesh' = [grid EXCEPT !.xypairs = pairs]
                         /\ pc' = "pool" /\ UNCHANGED <<exc, result>>
    /\ UNCHANGED <<fn, args, loc, log, plt, mp, anim>>

\* a pool for every call, one process when n_processes is None
MeshPoolAlways ==
    /\ pc = "pool"
    /\ mesh' = [mesh EXCEPT !.pool = "Pool"]
    /\ mp' = [mp EXCEPT !.created = @ + 1, !.state = "open",
                        !.processes = IF args.n_processes.none THEN 1
                                      ELSE args.n_processes.val]
    /\ pc' = "eval"
    /\ UNCHANGED <<fn, args, loc, exc, log, plt, anim, result>>

\* pool = None if n_processes is None else mp.Pool(n_processes)
MeshPool ==
    /\ pc = "pool"
    /\ IF args.n_processes.none
       THEN /\ mesh' = [mesh EXCEPT !.pool = "None"]
            /\ UNCHANGED mp
       ELSE /\ mesh' = [mesh EXCEPT !.pool = "Pool"]
            /\ mp' = [mp EXCEPT !.created = @ + 1, !.state = "open",
                                !.processes = args.n_processes.val]
    /\ pc' = "eval"
    /\ UNCHANGED <<fn, args, loc, exc, log, plt, anim, result>>

\* if pool is None: z = mesher.func(xypairs)
MeshSerial ==
    /\ pc = "eval" /\ mesh.pool = "None"
    /\ mp' = [mp EXCEPT !.serialCalls = Append(@, mesh.xypairs)]
    /\ LET e == FuncRaises(args.mesher.val.func, mesh.xypairs)
       IN  IF e = NoExc
           THEN /\ mesh' = [mesh EXCEPT !.z = Some(FuncValue(args.mesher.val.func, mesh.xypairs))]
                /\ pc' = "close" /\ UNCHANGED <<exc, result>>
           ELSE MeshRaise(e) /\ UNCHANGED mesh
    /\ UNCHANGED <<fn, args, loc, log, plt, anim>>

\* pool.map(mesher.func, np.array_split(xypairs, pool._processes)): the chunks are queued
MeshMap ==
    /\ pc = "eval" /\ mesh.pool = "Pool"
    /\ mesh' = [mesh EXCEPT !.chunks = ArraySplit(mesh.xypairs, mp.processes),
                            !.results = [k \in 1..mp.processes |-> None]]
    /\ mp' = [mp EXCEPT !.evals = [k \in 1..mp.processes |-> 0]]
    /\ pc' = "map"
    /\ UNCHANGED <<fn, args, loc, exc, log, plt, anim, result>>

\* a worker process takes a queued chunk and calls mesher.func on it
WorkerEval(k) ==
    /\ pc = "map" /\ mesh.results[k].none
    /\ mp.state = "open"
    /\ LET e == FuncRaises(args.mesher.val.func, mesh.chunks[k])
       IN  /\ mesh' = [mesh EXCEPT !.results[k] =
                  Some([exc |-> e,
                        value |-> IF e = NoExc
                                  THEN FuncValue(args.mesher.val.func, mesh.chunks[k])
                                  ELSE Array(<<>>, <<>>)])]
           /\ mp' = [mp EXCEPT !.evals[k] = @ + 1,
                               !.firstFail = IF e # NoExc /\ @ = 0 THEN k ELSE @]
    /\ UNCHANGED <<fn, args, pc, loc, exc, log, plt, anim, result>>

\* pool.map returns once every chunk is done: it raises the first failure, else
\* the results in the order of the chunks; z = np.concatenate(results)
MeshCollect ==
    /\ pc = "map"
    /\ \A k \in 1..Len(mesh.results) : ~mesh.results[k].none
    /\ LET results == [k \in 1..Len(mesh.results) |-> mesh.results[k].val.value]
       IN  IF mp.firstFail # 0
           THEN MeshRaise(mesh.results[mp.firstFail].val.exc) /\ UNCHANGED mesh
           ELSE IF ConcatenateOK(results)
                THEN /\ mesh' = [mesh EXCEPT !.z = Some(Concatenate(results))]
                     /\ pc' = "close" /\ UNCHANGED <<exc, result>>
                ELSE MeshRaise("ValueError") /\ UNCHANGED mesh
    /\ UNCHANGED <<fn, args, loc, log, plt, mp, anim>>

\* if n_processes is not None: pool.close()
MeshClose ==
    /\ pc = "close"
    /\ IF ~args.n_processes.none
       THEN mp' = [mp EXCEPT !.state = "closed", !.closed = @ + 1]
       ELSE UNCHANGED mp
    /\ pc' = "reshape"
    /\ UNCHANGED <<fn, args, loc, mesh, exc, log, plt, anim, result>>

\* zz = z.reshape(xx.shape); return xx, yy, zz
MeshReshape ==
    /\ pc = "reshape"
    /\ IF ReshapeOK(mesh.z.val, mesh.xx_shape)
       THEN LET zz == Reshape(mesh.z.val, mesh.xx_shape)
            IN  IF fn = "_mesh"
                THEN /\ result' = Returned([xx |-> mesh.xx, yy |-> mesh.yy, zz |-> zz])
                     /\ pc' = "done" /\ UNCHANGED <<loc, exc>>
                ELSE /\ loc' = [loc EXCEPT !.zz = Some(zz)]
                     /\ pc' = "draw" /\ UNCHANGED <<exc, result>>
       ELSE MeshRaise("ValueError") /\ UNCHANGED loc
    /\ UNCHANGED <<fn, args, mesh, log, plt, mp, anim>>

\* the meshers of the direct calls of _mesh: two or three limits, grids of 0..MaxGrid points
MeshMeshers ==
    {Mesher(<< <<0, a>>, <<0, b>> >> \o extra, 1, f) :
        a \in 0..MaxGrid, b \in 0..MaxGrid,
        extra \in {<<>>, << <<0, 2>> >>}, f \in FuncKinds}

MeshIndexPairs == {<<0, 1>>, <<1, 0>>, <<0, 2>>, <<-1, 0>>}

BestPositions == {None, Some(<<7, 8>>), Some(<<7, 8, 9>>)}

ProcessCounts == {None} \cup {Some(p) : p \in 1..MaxProcs}

MeshArgs ==
    {[Args0 EXCEPT !.mesher = Some(m), !.n_processes = p, !.x = xy[1], !.y = xy[2],
                   !.best_pos = bp] :
        m \in MeshMeshers, p \in ProcessCounts, xy \in MeshIndexPairs,
        bp \in BestPositions}

InitMesh ==
    /\ fn = "_mesh"
    /\ args \in MeshArgs
    /\ pc = "mesh"
    /\ loc = Loc0 /\ mesh = Mesh0 /\ exc = NoExc /\ log = <<>>
    /\ plt = Plt0 /\ mp = Mp0 /\ anim = Anim0 /\ result = NoResult

NextMesh ==
    \/ MeshGrid
    \/ MeshPool
    \/ MeshSerial
    \/ MeshMap
    \/ \E k \in 1..MaxProcs + 1 : k <= Len(mesh.results) /\ WorkerEval(k)
    \/ MeshCollect
    \/ MeshClose
    \/ MeshReshape

SpecMesh == InitMesh /\ [][NextMesh]_vars

\* ------------------------------------------------------- claims on _mesh
\* the objective functions that map each row of their input to one value
RowWise(kind) == kind \notin {"total", "gradient"}

\* _mesh was called and is past line 513, where it decides on the pool
PastPoolStep ==
    /\ ~args.mesher.none
    /\ \/ pc \in {"eval", "map", "close", "reshape", "draw", "else", "animating"}
       \/ result.kind = "return"

\* _mesh was called and is past line 516 or 522, where z is assigned
PastEvaluation ==
    /\ ~args.mesher.none
    /\ \/ pc \in {"close", "reshape", "draw", "else", "animating"}
       \/ result.kind = "return"

\* C1: with a pool, once z is computed for a row-wise mesher.func: xypairs was split
\* into P contiguous chunks, every chunk was evaluated exactly once, and z is the
\* single call mesher.func(xypairs): z[k] = func(xypairs[k]) for every k
C1_ParallelEqualsSerial ==
    (mesh.pool = "Pool" /\ ~mesh.z.none /\ RowWise(args.mesher.val.func)) =>
        /\ Len(mesh.chunks) = args.n_processes.val
        /\ Concat(mesh.chunks) = mesh.xypairs
        /\ \A k \in 1..Len(mesh.chunks) : mp.evals[k] = 1
        /\ mp.serialCalls = <<>>
        /\ mesh.z.val = FuncValue(args.mesher.val.func, mesh.xypairs)
        /\ Len(mesh.z.val.v) = Len(mesh.xypairs)
        /\ \A k \in 1..Len(mesh.xypairs) : mesh.z.val.v[k] = FuncRow(mesh.xypairs[k])

\* _mesh returned from a pool of several processes that got chunks of unequal sizes
C1_Witness ==
    /\ result.kind = "return" /\ mesh.pool = "Pool"
    /\ args.mesher.val.func = "ellipsoid"
    /\ args.n_processes.val >= 2
    /\ Len(mesh.xypairs) > args.n_processes.val
    /\ Len(mesh.xypairs) % args.n_processes.val # 0
    /\ result.value.zz.v = [k \in 1..Len(mesh.xypairs) |-> FuncRow(mesh.xypairs[k])]

\* C7: every pool _mesh created is closed when control has left _mesh, on the
\* normal path and when an exception left it, and is not closed before every
\* chunk was evaluated
C7_PoolClosedOnEveryExit ==
    /\ (pc = "done" /\ mp.created > 0) => mp.state = "closed"
    /\ mp.state = "closed" => \A k \in 1..Len(mesh.results) : ~mesh.results[k].none

\* what the code does: the pool is closed exactly when pool.map returned and
\* np.concatenate succeeded, and then after every chunk was evaluated
C7_PoolClosedAfterConcatenate ==
    /\ (pc = "done" /\ mp.created > 0) => (mp.state = "closed" <=> ~mesh.z.none)
    /\ mp.state = "closed" => \A k \in 1..Len(mesh.results) : ~mesh.results[k].none

\* ------------------------------------------- plot_contour, plot_surface
W_Dim2D == "Given pos_history has too less dimensions to be plotted in 2D."
W_Dim3D == "Given pos_history has too less dimensions to be plotted in 3D."
W_Limits == "Limits in designer has incorrect dimensions."
W_Labels == "Labels in designer has incorrect dimensions."
W_XBound == "Index of dimension to plot on x-axis out of bound."
W_YBound == "Index of dimension to plot on y-axis out of bound."
W_Same == "Index for plotting x- and y-axis is the same, that is probably not what you want."
W_Mesher == "Limits in mesher has incorrect dimensions."
W_MarkFew == "Given mark has too less values to be plotted."
W_MarkFit == "Number of dimensions of given mark does not fit plotting dimension nor problem dimension."

\* rep.logger.warn(msg) under a condition
WarnIf(cond, msg) == IF cond THEN <<LogEntry("warning", msg)>> ELSE <<>>

\* Designer(limits=[(-1, 1), (-1, 1)], label=["x-axis", "y-axis"])
ContourDesigner ==
    Designer(<< <<-1, 1>>, <<-1, 1>> >>, <<"x-axis", "y-axis">>, "Cost")

\* Designer(limits=[(-1, 1)] * 3, label=["x-axis", "y-axis", "z-axis"], colormap=cm.viridis)
SurfaceDesigner ==
    Designer(<< <<-1, 1>>, <<-1, 1>>, <<-1, 1>> >>, <<"x-axis", "y-axis", "z-axis">>, "Cost")

\* Animator(): an animation that repeats
DefaultAnimator == [repeat |-> TRUE]

\* a position history of shape (n_iters, n_particles, n_cols) whose entries all differ
PosHistory(n_iters, n_particles, n_cols) ==
    [i \in 1..n_iters |-> [q \in 1..n_particles |-> [d \in 1..n_cols |->
        100 * (i - 1) + 10 * (q - 1) + (d - 1)]]]

ParticleCounts == {2}

\* pos_history[:, :, cols]
TakeColumns(ph, cols) ==
    [i \in 1..Len(ph) |-> [q \in 1..Len(ph[i]) |-> [c \in 1..Len(cols) |->
        PyIndex(ph[i][q], cols[c])]]]

\* m.T of a matrix with at least one row
Transpose(m) == [c \in 1..Len(m[1]) |-> [r \in 1..Len(m) |-> m[r][c]]]

\* the input checks: one warning per failed check, in the order of the checks
InputChecks(n_dim, dlen, designer, msgDim) ==
    WarnIf(n_dim < 2, msgDim)
    \o WarnIf(~IntIs(Len(designer.limits), dlen, FALSE), W_Limits)
    \o WarnIf(~IntIs(Len(designer.label), dlen, FALSE), W_Labels)
    \o WarnIf(args.x < 0 \/ args.x >= n_dim, W_XBound)
    \o WarnIf(args.y < 0 \/ args.y >= n_dim, W_YBound)
    \o WarnIf(IntIs(args.x, args.y, args.xy_same), W_Same)

\* designer, animator and canvas defaults; n_dim = pos_history[0].shape[1] - fitness
PlotSetup(defaultDesigner, fitness) ==
    /\ pc = "start"
    /\ LET designer == IF args.designer.none THEN defaultDesigner ELSE args.designer.val
           animator == IF args.animator.none THEN DefaultAnimator ELSE args.animator.val
           canvas == IF args.canvas.none THEN [fig |-> NewFig, ax |-> NewAx]
                     ELSE args.canvas.val
           set == [loc EXCEPT !.designer = Some(designer), !.animator = Some(animator),
                              !.fig = canvas.fig, !.ax = canvas.ax]
       IN  /\ plt' = IF args.canvas.none THEN [plt EXCEPT !.subplots = @ + 1] ELSE plt
           /\ IF args.pos_history.none
              THEN Raise("TypeError") /\ loc' = set
              ELSE IF args.pos_history.val = <<>>
                   THEN Raise("IndexError") /\ loc' = set
                   ELSE /\ loc' = [set EXCEPT !.n_dim =
                                      Len(args.pos_history.val[1][1]) - fitness]
                        /\ pc' = "checks" /\ UNCHANGED exc
    /\ UNCHANGED <<fn, args, mesh, log, mp, anim, result>>

ContourSetup == fn = "plot_contour" /\ PlotSetup(ContourDesigner, 0)

SurfaceSetup == fn = "plot_surface" /\ PlotSetup(SurfaceDesigner, 1)

\* the input checks log their warnings
ContourChecks ==
    /\ fn = "plot_contour" /\ pc = "checks"
    /\ log' = log \o InputChecks(loc.n_dim, loc.n_dim, loc.designer.val, W_Dim2D)
    /\ pc' = "customize"
    /\ UNCHANGED <<fn, args, loc, mesh, exc, plt, mp, anim, result>>

SurfaceChecks ==
    /\ fn = "plot_surface" /\ pc = "checks"
    /\ log' = log \o InputChecks(loc.n_dim, loc.n_dim + 1, loc.designer.val, W_Dim3D)
    /\ pc' = "customize"
    /\ UNCHANGED <<fn, args, loc, mesh, exc, plt, mp, anim, result>>

\* the meshers, pool sizes and best positions of the calls of the plot functions
PlotMeshers == {Mesher(<< <<0, 2>>, <<0, 1>> >>, 1, f) : f \in FuncKinds}

PlotMeshChoices ==
    {[mesher |-> None, n_processes |-> None, best_pos |-> None]}
    \cup {[mesher |-> Some(m), n_processes |-> p, best_pos |-> bp] :
            m \in PlotMeshers, p \in {None, Some(2)}, bp \in {None, Some(<<7, 8, 9>>)}}

\* n_iters, title, labels and limits of the axes idx; then the mesher's own check.
\* The body reads mesher, n_processes and best_pos here for the first time.
PlotCustomize(ax, idx) ==
    /\ pc = "customize"
    /\ LET label == loc.designer.val.label
           limits == loc.designer.val.limits
       IN  IF \E k \in 1..Len(idx) :
                  ~PyIndexOK(idx[k], Len(label)) \/ ~PyIndexOK(idx[k], Len(limits))
           THEN /\ Raise("IndexError")
                /\ loc' = [loc EXCEPT !.ax = ax, !.n_iters = Len(args.pos_history.val)]
                /\ plt' = [plt EXCEPT !.axes3d = IF ax = loc.ax THEN @ ELSE @ + 1]
                /\ UNCHANGED <<args, log>>
           ELSE /\ loc' = [loc EXCEPT !.ax = ax, !.n_iters = Len(args.pos_history.val)]
                /\ plt' = [plt EXCEPT
                      !.axes3d = IF ax = loc.ax THEN @ ELSE @ + 1,
                      !.drawn = Append(@, [ax |-> ax, kind |-> "axes",
                          labels |-> [k \in 1..Len(idx) |-> PyIndex(label, idx[k])],
                          limits |-> [k \in 1..Len(idx) |-> PyIndex(limits, idx[k])]])]
                /\ \E c \in PlotMeshChoices :
                      /\ args' = [args EXCEPT !.mesher = c.mesher,
                                              !.n_processes = c.n_processes,
                                              !.best_pos = c.best_pos]
                      /\ IF c.mesher.none
                         THEN pc' = "draw" /\ UNCHANGED log
                         ELSE /\ log' = log \o WarnIf(
                                    ~IntIs(Len(c.mesher.val.limits), loc.n_dim, FALSE),
                                    W_Mesher)
                              /\ pc' = "mesh"
                /\ UNCHANGED exc
    /\ UNCHANGED <<fn, mesh, mp, anim, result>>

ContourCustomize ==
    fn = "plot_contour" /\ PlotCustomize(loc.ax, <<args.x, args.y>>)

\* if not hasattr(ax, 'get_zlim'): ax = Axes3D(fig); the z label and limit are the last
SurfaceCustomize ==
    fn = "plot_surface"
    /\ PlotCustomize(IF HasZlim(loc.ax) THEN loc.ax ELSE Ax3D, <<args.x, args.y, loc.n_dim>>)

Marks == {None, Some(<<1>>), Some(<<1, 2>>), Some(<<1, 2, 3>>), Some(<<1, 2, 3, 4>>)}

\* what the mark branch does: warnings, the scatter call, or an IndexError
MarkOutcome(warn, at, exception) == [warn |-> warn, at |-> at, exc |-> exception]

MarkAt(mark, idx) ==
    IF \E k \in 1..Len(idx) : ~PyIndexOK(idx[k], Len(mark))
    THEN MarkOutcome(<<>>, <<>>, "IndexError")
    ELSE MarkOutcome(<<>>, <<[k \in 1..Len(idx) |-> PyIndex(mark, idx[k])]>>, NoExc)

\* plot_contour: len(mark) < 2, len(mark) is 2, len(mark) is n_dim, else
ContourMark(mark) ==
    IF mark.none THEN MarkOutcome(<<>>, <<>>, NoExc)
    ELSE IF Len(mark.val) < 2 THEN MarkOutcome(WarnIf(TRUE, W_MarkFew), <<>>, NoExc)
    ELSE IF IntIs(Len(mark.val), 2, FALSE) THEN MarkAt(mark.val, <<0, 1>>)
    ELSE IF IntIs(Len(mark.val), loc.n_dim, FALSE) THEN MarkAt(mark.val, <<args.x, args.y>>)
    ELSE MarkOutcome(WarnIf(TRUE, W_MarkFit), <<>>, NoExc)

\* plot_surface: len(mark) < 3, len(mark) == 3, len(mark) == n_dim + 1, else
SurfaceMark(mark) ==
    IF mark.none THEN MarkOutcome(<<>>, <<>>, NoExc)
    ELSE IF Len(mark.val) < 3 THEN MarkOutcome(WarnIf(TRUE, W_MarkFew), <<>>, NoExc)
    ELSE IF Len(mark.val) = 3 THEN MarkAt(mark.val, <<0, 1, 2>>)
    ELSE IF Len(mark.val) = loc.n_dim + 1
         THEN MarkAt(mark.val, <<args.x, args.y, loc.n_dim>>)
    ELSE MarkOutcome(WarnIf(TRUE, W_MarkFit), <<>>, NoExc)

\* the mesh drawing, the mark, the scatter skeleton, pos_history[:, :, cols] and
\* the FuncAnimation.  The body reads mark here for the first time; out is what the
\* ax.scatter call of the skeleton does.
PlotDraw(meshKind, mark, marked, cols, out) ==
    /\ pc = "draw"
    /\ args' = [args EXCEPT !.mark = mark]
    /\ log' = log \o marked.warn
    /\ plt' = [plt EXCEPT !.drawn = @
            \o (IF args.mesher.none THEN <<>>
                ELSE <<[ax |-> loc.ax, kind |-> meshKind, zz |-> loc.zz.val]>>)
            \o [k \in 1..Len(marked.at) |->
                    [ax |-> loc.ax, kind |-> "mark", at |-> marked.at[k]]]]
    /\ IF marked.exc # NoExc
       THEN Raise(marked.exc) /\ UNCHANGED anim
       ELSE IF out # NoExc
       THEN Raise(out) /\ UNCHANGED anim
       ELSE IF \E k \in 1..Len(cols) :
                   ~PyIndexOK(cols[k], Len(args.pos_history.val[1][1]))
       THEN Raise("IndexError") /\ UNCHANGED anim
       ELSE /\ anim' = [anim EXCEPT !.made = TRUE,
                            !.frames = ARange(loc.n_iters),
                            !.data = TakeColumns(args.pos_history.val, cols),
                            !.repeat = loc.animator.val.repeat,
                            !.plot = Some([offsets |-> <<>>, offsets3d |-> <<>>])]
            /\ pc' = "else" /\ UNCHANGED exc
    /\ UNCHANGED <<fn, loc, mesh, mp, result>>

ContourDraw ==
    /\ fn = "plot_contour"
    /\ \E mark \in Marks, out \in LibOutcomes :
          PlotDraw("contour", mark, ContourMark(mark), <<args.x, args.y>>, out)

SurfaceDraw ==
    /\ fn = "plot_surface"
    /\ \E mark \in Marks, out \in LibOutcomes :
          PlotDraw("plot_surface", mark, SurfaceMark(mark),
                   <<args.x, args.y, Len(args.pos_history.val[1][1]) - 1>>, out)

ContourExcept == fn = "plot_contour" /\ ExceptTypeError

SurfaceExcept == fn = "plot_surface" /\ ExceptTypeError

\* else: return anim
PlotReturn ==
    /\ pc = "else"
    /\ result' = Returned("anim")
    /\ pc' = "animating"
    /\ UNCHANGED <<fn, args, loc, mesh, exc, log, plt, mp, anim>>

ContourReturn == fn = "plot_contour" /\ PlotReturn

SurfaceReturn == fn = "plot_surface" /\ PlotReturn

\* _animate reading the iteration before frame i
AnimatePrevious(i, data, plot) ==
    LET current_pos == PyIndex(data, i - 1)
    IN  IF Len(current_pos[1]) = 2
        THEN [plot EXCEPT !.offsets = current_pos]
        ELSE [plot EXCEPT !.offsets3d = Transpose(current_pos)]

\* _animate(i, data, plot): the scatter after the call
Animate(i, data, plot) ==
    LET current_pos == PyIndex(data, i)
    IN  IF Len(current_pos[1]) = 2
        THEN [plot EXCEPT !.offsets = current_pos]
        ELSE [plot EXCEPT !.offsets3d = Transpose(current_pos)]

\* FuncAnimation draws its next frame: func(frame, *fargs) for the frames in order,
\* and again from the first frame when repeat is set
AnimationFrame ==
    /\ pc = "animating" /\ anim.made
    /\ anim.next <= Len(anim.frames)
    /\ Len(anim.shown) < MaxPlays
    /\ LET i == anim.frames[anim.next]
           plot == Animate(i, anim.data, anim.plot.val)
       IN  anim' = [anim EXCEPT
               !.plot = Some(plot),
               !.shown = Append(@, [frame |-> i, plot |-> plot]),
               !.next = IF @ = Len(anim.frames) /\ anim.repeat THEN 1 ELSE @ + 1]
    /\ UNCHANGED <<fn, args, pc, loc, mesh, exc, log, plt, mp, result>>

\* the index arguments x and y; equal ints outside SmallInts are one object or two
IndexArgs ==
    {[x |-> x, y |-> y, same |-> s] :
        x \in {-1, 0, 1, 300}, y \in {0, 1, 2, 300}, s \in BOOLEAN}

XYArgs ==
    {a \in IndexArgs : /\ a.x # a.y => ~a.same
                       /\ (a.x = a.y /\ a.x \in SmallInts) => a.same}

PlotArgs(cols, canvases, designers) ==
    {[Args0 EXCEPT !.pos_history = ph, !.canvas = c, !.designer = d, !.animator = an,
                   !.x = xy.x, !.y = xy.y, !.xy_same = xy.same] :
        ph \in {None} \cup {Some(PosHistory(n, q, nc)) :
                               n \in 0..MaxIters, q \in ParticleCounts, nc \in cols},
        c \in canvases, d \in designers,
        an \in {None, Some([repeat |-> FALSE])},
        xy \in XYArgs}

InitPlot(f, argset) ==
    /\ fn = f
    /\ args \in argset
    /\ pc = "start"
    /\ loc = Loc0 /\ mesh = Mesh0 /\ exc = NoExc /\ log = <<>>
    /\ plt = Plt0 /\ mp = Mp0 /\ anim = Anim0 /\ result = NoResult

InitContour ==
    InitPlot("plot_contour",
        PlotArgs(1..MaxDim, {None, Some([fig |-> UserFig, ax |-> UserAx])},
                 {None} \cup {Some(CustomDesigner(n)) : n \in 2..MaxDim}))

InitSurface ==
    InitPlot("plot_surface",
        PlotArgs(2..MaxDim + 1,
                 {None, Some([fig |-> UserFig, ax |-> UserAx]),
                  Some([fig |-> UserFig, ax |-> UserAx3D])},
                 {None} \cup {Some(CustomDesigner(n)) : n \in 3..MaxDim + 1}))

InitCost ==
    /\ fn = "plot_cost_history"
    /\ args \in CostArgs
    /\ pc = "start"
    /\ loc = Loc0 /\ mesh = Mesh0 /\ exc = NoExc /\ log = <<>>
    /\ plt = Plt0 /\ mp = Mp0 /\ anim = Anim0 /\ result = NoResult

Init == InitCost \/ InitContour \/ InitSurface

Next ==
    \/ CostLen
    \/ CostDefaults
    \/ CostPlot
    \/ CostCustomize
    \/ CostExcept
    \/ CostReturn
    \/ ContourSetup
    \/ ContourChecks
    \/ ContourCustomize
    \/ ContourDraw
    \/ ContourExcept
    \/ ContourReturn
    \/ SurfaceSetup
    \/ SurfaceChecks
    \/ SurfaceCustomize
    \/ SurfaceDraw
    \/ SurfaceExcept
    \/ SurfaceReturn
    \/ AnimationFrame
    \/ NextMesh

Spec == Init /\ [][Next]_vars

\* the calls of the plot functions and the direct calls of _mesh
InitAll == Init \/ InitMesh

SpecAll == InitAll /\ [][Next]_vars

\* C3: a pool is created if and only if n_processes is not None; with n_processes
\* None no pool exists, no worker evaluates anything and mesher.func is called
\* exactly once, with the whole array xypairs
C3_NoneMeansSerial ==
    /\ mp.created <= 1
    /\ mp.created = 1 => ~args.n_processes.none
    /\ PastPoolStep => (mp.created = 1 <=> ~args.n_processes.none)
    /\ args.n_processes.none =>
        /\ mp.state = "none" /\ mp.evals = <<>>
        /\ Len(mp.serialCalls) <= 1
        /\ PastEvaluation => mp.serialCalls = <<mesh.xypairs>>

\* plot_contour returned after _mesh computed a mesh of several points without a pool
C3_Witness ==
    /\ fn = "plot_contour" /\ result.kind = "return"
    /\ ~args.mesher.none /\ args.n_processes.none
    /\ Len(mesh.xypairs) >= 2
    /\ mp.created = 0 /\ mp.serialCalls = <<mesh.xypairs>>

\* -------------------------------------------- claims on the plot functions
InputTypeEntry == LogEntry("exception", MsgInputType)

InputTypeEntries == Cardinality({k \in 1..Len(log) : log[k] = InputTypeEntry})

\* the positions of iteration i (from 0) of the pos_history that was passed,
\* restricted to the columns cols
IterationColumns(i, cols) ==
    LET ph == args.pos_history.val
    IN  [q \in 1..Len(ph[i + 1]) |-> [c \in 1..Len(cols) |->
            ph[i + 1][q][(IF cols[c] < 0 THEN cols[c] + Len(ph[i + 1][q]) ELSE cols[c]) + 1]]]

\* C2: the animation has len(pos_history) frames 0, 1, ..., drawn in this order
\* (and again from 0 when it repeats), and frame i sets the scatter to the positions
\* of iteration i in the columns [x, y] (plot_contour) or [x, y, last] (plot_surface)
C2_FramesAreIterations ==
    anim.made =>
        LET n == Len(args.pos_history.val)
            last == Len(args.pos_history.val[1][1]) - 1
        IN  /\ anim.frames = [k \in 1..n |-> k - 1]
            /\ ~anim.repeat => Len(anim.shown) <= n
            /\ \A j \in 1..Len(anim.shown) :
                /\ anim.shown[j].frame = (j - 1) % n
                /\ fn = "plot_contour" =>
                       anim.shown[j].plot.offsets =
                           IterationColumns((j - 1) % n, <<args.x, args.y>>)
                /\ fn = "plot_surface" =>
                       anim.shown[j].plot.offsets3d =
                           Transpose(IterationColumns((j - 1) % n, <<args.x, args.y, last>>))
            /\ anim.shown # <<>> => anim.plot.val = anim.shown[Len(anim.shown)].plot

\* a repeating surface animation of several iterations has drawn its frames twice
C2_Witness ==
    /\ fn = "plot_surface" /\ anim.made /\ anim.repeat
    /\ Len(args.pos_history.val) >= 2
    /\ Len(anim.shown) >= 2 * Len(args.pos_history.val)
    /\ args.x = 1 /\ args.y = 0

\* C4: a TypeError raised in the body is logged once with MsgInputType and raised
\* to the caller unchanged, and nothing is returned; any other exception leaves
\* without that entry; without an exception the axes or the animation is returned
C4_TypeErrorLoggedAndReraised ==
    /\ pc = "except" => (exc # NoExc /\ result = NoResult /\ InputTypeEntries = 0)
    /\ pc \notin {"except", "done"} => (exc = NoExc /\ InputTypeEntries = 0)
    /\ pc = "done" => result # NoResult
    /\ result.kind = "raise" =>
        /\ exc # NoExc /\ result = Raised(exc)
        /\ exc = "TypeError" =>
               (InputTypeEntries = 1 /\ log[Len(log)] = InputTypeEntry)
        /\ exc # "TypeError" => InputTypeEntries = 0
    /\ result.kind = "return" =>
        /\ exc = NoExc /\ InputTypeEntries = 0
        /\ fn = "plot_cost_history" => result.value = loc.ax
        /\ fn # "plot_cost_history" => (result.value = "anim" /\ anim.made)

\* plot_surface has logged and passed on a TypeError that mesher.func raised in a worker
C4_Witness ==
    /\ fn = "plot_surface" /\ pc = "done" /\ result = Raised("TypeError")
    /\ mp.created = 1 /\ mp.firstFail # 0
    /\ InputTypeEntries = 1

\* C5: plot_cost_history returns the axes it drew on: the ax passed in, with no
\* axes created, or the one new axes it created; the line has the x-values
\* 0, 1, ..., len(cost_history)-1 paired in order with cost_history
C5_CostHistoryAxes ==
    (fn = "plot_cost_history" /\ result.kind = "return") =>
        LET ch == args.cost_history.val
            lines == {k \in 1..Len(plt.drawn) : plt.drawn[k].kind = "plot"}
        IN  /\ args.ax # NoAx => (result.value = args.ax /\ plt.subplots = 0)
            /\ args.ax = NoAx => (result.value = NewAx /\ plt.subplots = 1)
            /\ \A k \in 1..Len(plt.drawn) : plt.drawn[k].ax = result.value
            /\ Cardinality(lines) = 1
            /\ \A k \in lines :
                /\ Len(plt.drawn[k].xs) = Len(ch) /\ Len(plt.drawn[k].ys) = Len(ch)
                /\ \A j \in 1..Len(ch) :
                      plt.drawn[k].xs[j] = j - 1 /\ plt.drawn[k].ys[j] = ch[j]

\* plot_cost_history returned the caller's axes with a line of several points
C5_Witness ==
    /\ fn = "plot_cost_history" /\ result.kind = "return"
    /\ args.ax = UserAx /\ result.value = UserAx
    /\ Len(args.cost_history.val) >= 2
    /\ args.cost_history.val[1] # args.cost_history.val[2]

\* the warnings of the failed input checks, a check failing by the values it compares
FailedChecks ==
    LET designer == loc.designer.val
        dlen == IF fn = "plot_surface" THEN loc.n_dim + 1 ELSE loc.n_dim
    IN  WarnIf(loc.n_dim < 2, IF fn = "plot_surface" THEN W_Dim3D ELSE W_Dim2D)
        \o WarnIf(Len(designer.limits) # dlen, W_Limits)
        \o WarnIf(Len(designer.label) # dlen, W_Labels)
        \o WarnIf(args.x < 0 \/ args.x >= loc.n_dim, W_XBound)
        \o WarnIf(args.y < 0 \/ args.y >= loc.n_dim, W_YBound)
        \o WarnIf(args.x = args.y, W_Same)

\* C6: after the input checks the log holds one warning for each failed check and
\* nothing else, nothing was raised or returned, and the body goes on to the same
\* step; likewise after the check of the mesher limits
C6_ChecksOnlyWarn ==
    fn \in {"plot_contour", "plot_surface"} =>
        /\ pc = "customize" =>
               (log = FailedChecks /\ exc = NoExc /\ result = NoResult)
        /\ pc = "mesh" =>
            /\ log = FailedChecks
                   \o WarnIf(Len(args.mesher.val.limits) # loc.n_dim, W_Mesher)
            /\ exc = NoExc /\ result = NoResult
====
